---- MODULE Spec2Model ----
(***************************************************************************)
(* Model of cmd/openapi-extractor/main.go (the polling variant, lines      *)
(* 202-479): main, extractOpenAPI, waitForAPIServicesOpenAPIV3,            *)
(* extractOpenAPIv2, extractOpenAPIv3, writeJSONFile and getPath.          *)
(*                                                                         *)
(* extractOpenAPI is a sequential function; pc is its position.  Every     *)
(* call it makes to a collaborator (envtestutils, apiserver, client-go,    *)
(* the file system) returns success or an error, chosen nondeterminis-     *)
(* tically, and is recorded in the history variable calls.  Errors are     *)
(* chains of messages, as fmt.Errorf("...: %w", err) builds them; the nil  *)
(* error is the empty chain.                                               *)
(***************************************************************************)
EXTENDS Integers, Sequences, FiniteSets, TLC

(* Bounds of the model. *)
MaxServices == 2
MaxRounds == 2
MaxWrites == 2

Groups == {"foo.example.com", "bar.example.com"}
Versions == {"v1"}
GroupVersions == [Group : Groups, Version : Versions]

(* The API service lists the registrar can yield, in registration order:  *)
(* no two descriptors of a list have the same group and version.          *)
ServiceLists ==
    {svcs \in UNION {[1..n -> GroupVersions] : n \in 0..MaxServices} :
        \A i, j \in DOMAIN svcs : svcs[i] = svcs[j] => i = j}

(* The payloads a GET can return; json.Indent accepts the valid ones. *)
ValidPayloads == {"{\"openapi\":\"3.0.0\"}"}
Payloads == ValidPayloads \cup {"<html>"}

VARIABLES
    pc,            \* position in main / extractOpenAPI
    err,           \* the error extractOpenAPI returns (<<>> is nil)
    exitCode,      \* exit code of the process, -1 while running
    deferred,      \* stack of deferred functions of extractOpenAPI
    ctxCancelled,  \* ctx of main is cancelled (signal, or cancel())
    services,      \* testEnvExt.APIServiceInstallOptions.APIServices
    testGVs,       \* waitForAPIServicesOpenAPIV3: testGVs
    newTestGVs,    \* newTestGVs of the round in progress
    pending,       \* elements the range loop of the round has not visited
    round,         \* number of the poll round (0 before the poll)
    pollCtxErr,    \* ctx.Err() of the deadline context of the poll
    pollState,     \* Idle, Polling, AllReady, TimedOut, Cancelled
    preRound,      \* history: testGVs when the current round began
    roundStart,    \* history: Len(calls) when the current round began
    v3idx,         \* index of the range loop of extractOpenAPIv3
    resp,          \* payload returned by the last getPath
    files,         \* the file system: file name -> content
    logged,        \* log records written so far
    calls          \* history: the calls made so far, in order

vars == <<pc, err, exitCode, deferred, ctxCancelled, services, testGVs,
          newTestGVs, pending, round, pollCtxErr, pollState, preRound,
          roundStart, v3idx, resp, files, logged, calls>>

pollVars == <<testGVs, newTestGVs, pending, round, pollCtxErr, pollState,
              preRound, roundStart>>

nil == <<>>

(* fmt.Errorf("<msg>: %w", cause) *)
Errorf(msg, cause) == <<msg>> \o cause

Call(op, arg, ok) == [op |-> op, arg |-> arg, ok |-> ok]

LogRecord(msg, e, gvs) == [msg |-> msg, err |-> e, gvs |-> gvs]

(* sets.New + Insert over the services (lines 382-388) *)
GVSet(svcs) == {svcs[i] : i \in DOMAIN svcs}

V2Path == "/openapi/v2"

V3Path(gv) == "/openapi/v3/apis/" \o gv.Group \o "/" \o gv.Version

V3FileNameGroupOnly(gv) == "apis__" \o gv.Group \o "_openapi.json"

V3FileNameDotted(gv) == "apis." \o gv.Group \o "." \o gv.Version \o "_openapi.json"

V3FileName(gv) == "apis__" \o gv.Group \o "__" \o gv.Version \o "_openapi.json"

(* The order of the statements of extractOpenAPI (lines 301-363): the    *)
(* statement that follows statement p when p did not fail.               *)
SuccWithoutPoll(p) ==
    CASE p = "StartWithExtensions" -> "client.New"
      [] p = "client.New" -> "apiserver.New"
      [] p = "apiserver.New" -> "apiSrv.Start"
      [] p = "apiSrv.Start" -> "WaitUntilAPIServicesReadyWithTimeout"
      [] p = "WaitUntilAPIServicesReadyWithTimeout" -> "kubernetes.NewForConfig"
      [] p = "kubernetes.NewForConfig" -> "extractOpenAPIv2"
      [] p = "waitForAPIServicesOpenAPIV3" -> "extractOpenAPIv2"
      [] p = "extractOpenAPIv2" -> "extractOpenAPIv3"

Succ(p) ==
    CASE p = "StartWithExtensions" -> "client.New"
      [] p = "client.New" -> "apiserver.New"
      [] p = "apiserver.New" -> "apiSrv.Start"
      [] p = "apiSrv.Start" -> "WaitUntilAPIServicesReadyWithTimeout"
      [] p = "WaitUntilAPIServicesReadyWithTimeout" -> "kubernetes.NewForConfig"
      [] p = "kubernetes.NewForConfig" -> "waitForAPIServicesOpenAPIV3"
      [] p = "waitForAPIServicesOpenAPIV3" -> "extractOpenAPIv2"
      [] p = "extractOpenAPIv2" -> "extractOpenAPIv3"

(* return <e>: the deferred functions run next. *)
ReturnSkippingDefers(e) == err' = e /\ pc' = "returned"

Return(e) == err' = e /\ pc' = "defers"

(* if err != nil { return fmt.Errorf(msg, err) }, else fall through to next *)
CheckIgnoringErr(ok, e, next) == pc' = next /\ err' = err

Check(ok, e, next) == IF ok THEN pc' = next /\ err' = err ELSE Return(e)

(* defer f(): the deferred functions run last-in first-out. *)
PushDeferFIFO(f) == Append(deferred, f)

PushDefer(f) == <<f>> \o deferred

(* The handle a start or stop function acts on. *)
StartOp(h) == IF h = "testEnv" THEN "StartWithExtensions" ELSE "apiSrv.Start"

StopOp(h) == IF h = "testEnv" THEN "StopWithExtensions" ELSE "apiSrv.Stop"

Handles == {"testEnv", "apiSrv"}

StopLogMsg(f) ==
    IF f = "StopWithExtensions" THEN "failed to stop testenv"
    ELSE "failed to stop api server"

(* The deferred closures only log the error of the stop: the value       *)
(* extractOpenAPI returns is the one its return statement set.           *)
DeferredErrOverwriting(cur, stopErr) == IF stopErr # nil THEN stopErr ELSE cur

DeferredErr(cur, stopErr) == cur

(* main: os.Exit(1) when extractOpenAPI returned an error, else return. *)
ExitCodeAlwaysZero(e) == 0

ExitCode(e) == IF e # nil THEN 1 ELSE 0

outputDir == "."

(* strings.Split(path, "/"): the elements between the separators. *)
RECURSIVE SplitPath(_, _, _)
SplitPath(path, from, i) ==
    IF i > Len(path) THEN <<SubSeq(path, from, Len(path))>>
    ELSE IF SubSeq(path, i, i) = "/"
    THEN <<SubSeq(path, from, i - 1)>> \o SplitPath(path, i + 1, i + 1)
    ELSE SplitPath(path, from, i + 1)

(* filepath.Base: the last element of the path, trailing separators      *)
(* removed; "." for the empty path and "/" for a path of separators.     *)
RECURSIVE LastElement(_)
LastElement(elems) ==
    IF elems = <<>> THEN ""
    ELSE IF elems[Len(elems)] # "" THEN elems[Len(elems)]
    ELSE LastElement(SubSeq(elems, 1, Len(elems) - 1))

Base(path) ==
    IF path = "" THEN "."
    ELSE LET last == LastElement(SplitPath(path, 1, 1)) IN
         IF last = "" THEN "/" ELSE last

(* filepath.Clean on the elements of a path: empty and "." elements are  *)
(* dropped, ".." removes the element before it (at the root it is        *)
(* dropped, at the start of a relative path it is kept).                 *)
RECURSIVE CleanElems(_, _, _)
CleanElems(elems, out, rooted) ==
    IF elems = <<>> THEN out
    ELSE LET e == Head(elems)
             rest == Tail(elems) IN
         IF e = "" \/ e = "." THEN CleanElems(rest, out, rooted)
         ELSE IF e = ".."
         THEN IF out # <<>> /\ out[Len(out)] # ".."
              THEN CleanElems(rest, SubSeq(out, 1, Len(out) - 1), rooted)
              ELSE IF rooted THEN CleanElems(rest, out, rooted)
              ELSE CleanElems(rest, Append(out, e), rooted)
         ELSE CleanElems(rest, Append(out, e), rooted)

RECURSIVE JoinElems(_)
JoinElems(elems) ==
    IF elems = <<>> THEN ""
    ELSE IF Len(elems) = 1 THEN elems[1]
    ELSE elems[1] \o "/" \o JoinElems(Tail(elems))

Clean(path) ==
    LET rooted == Len(path) > 0 /\ SubSeq(path, 1, 1) = "/"
        out == JoinElems(CleanElems(SplitPath(path, 1, 1), <<>>, rooted)) IN
    IF rooted THEN "/" \o out
    ELSE IF out = "" THEN "."
    ELSE out

(* filepath.Join of two elements: empty elements are ignored, the rest   *)
(* joined by a separator and cleaned.                                    *)
Join(dir, name) ==
    IF dir = "" /\ name = "" THEN ""
    ELSE IF dir = "" THEN Clean(name)
    ELSE IF name = "" THEN Clean(dir)
    ELSE Clean(dir \o "/" \o name)

(* filepath.Join(dir, filepath.Base(name)) (line 465) *)
JoinBase(dir, name) == Join(dir, Base(name))

(***************************************************************************)
(* encoding/json as writeJSONFile uses it (line 461).  A payload is a      *)
(* string; Ch(s, i) is its i-th byte.                                      *)
(***************************************************************************)
Ch(s, i) == SubSeq(s, i, i)

(* isSpace of the scanner *)
JSONSpace == {" ", "\t", "\n", "\r"}

Digits == {"0", "1", "2", "3", "4", "5", "6", "7", "8", "9"}

HexDigits == Digits \cup {"a", "b", "c", "d", "e", "f", "A", "B", "C", "D", "E", "F"}

RECURSIVE SkipSpace(_, _)
SkipSpace(s, i) ==
    IF i <= Len(s) /\ Ch(s, i) \in JSONSpace THEN SkipSpace(s, i + 1) ELSE i

RECURSIVE SkipDigits(_, _)
SkipDigits(s, i) ==
    IF i <= Len(s) /\ Ch(s, i) \in Digits THEN SkipDigits(s, i + 1) ELSE i

(* The scanners below take the position at which an element begins and   *)
(* give the position after it, or 0 when the bytes are not that element. *)

(* A string, from the byte after its opening quote. *)
RECURSIVE ScanString(_, _)
ScanString(s, i) ==
    IF i > Len(s) THEN 0
    ELSE LET c == Ch(s, i) IN
         IF c = "\"" THEN i + 1
         ELSE IF c = "\\"
         THEN IF i + 1 > Len(s) THEN 0
              ELSE IF Ch(s, i + 1) \in {"\"", "\\", "/", "b", "f", "n", "r", "t"}
              THEN ScanString(s, i + 2)
              ELSE IF Ch(s, i + 1) = "u" /\ i + 5 <= Len(s)
                      /\ \A k \in 2..5 : Ch(s, i + k) \in HexDigits
              THEN ScanString(s, i + 6)
              ELSE 0
         ELSE IF c \in {"\t", "\n", "\r"} THEN 0
         ELSE ScanString(s, i + 1)

(* A number: an optional minus, then 0 or digits not led by 0, then an  *)
(* optional fraction and an optional exponent, each with a digit.       *)
ScanNumber(s, i) ==
    LET a == IF i <= Len(s) /\ Ch(s, i) = "-" THEN i + 1 ELSE i
        b == IF a > Len(s) \/ Ch(s, a) \notin Digits THEN 0
             ELSE IF Ch(s, a) = "0" THEN a + 1
             ELSE SkipDigits(s, a)
        c == IF b = 0 THEN 0
             ELSE IF b <= Len(s) /\ Ch(s, b) = "."
             THEN IF SkipDigits(s, b + 1) = b + 1 THEN 0 ELSE SkipDigits(s, b + 1)
             ELSE b
        d == IF c # 0 /\ c <= Len(s) /\ Ch(s, c) \in {"e", "E"}
             THEN IF c + 1 <= Len(s) /\ Ch(s, c + 1) \in {"+", "-"} THEN c + 2 ELSE c + 1
             ELSE 0
    IN  IF c = 0 THEN 0
        ELSE IF d = 0 THEN c
        ELSE IF SkipDigits(s, d) = d THEN 0
        ELSE SkipDigits(s, d)

ScanLiteral(s, i, word) ==
    IF i + Len(word) - 1 <= Len(s) /\ SubSeq(s, i, i + Len(word) - 1) = word
    THEN i + Len(word)
    ELSE 0

RECURSIVE ScanValue(_, _)
RECURSIVE ScanMembers(_, _)
RECURSIVE ScanElements(_, _)

(* The members of an object, from the first key to the closing brace. *)
ScanMembers(s, i) ==
    LET k == SkipSpace(s, i)
        afterKey == IF k <= Len(s) /\ Ch(s, k) = "\"" THEN ScanString(s, k + 1) ELSE 0
        colon == IF afterKey = 0 THEN 0 ELSE SkipSpace(s, afterKey)
        afterValue == IF colon # 0 /\ colon <= Len(s) /\ Ch(s, colon) = ":"
                      THEN ScanValue(s, colon + 1)
                      ELSE 0
        sep == IF afterValue = 0 THEN 0 ELSE SkipSpace(s, afterValue)
    IN  IF sep = 0 \/ sep > Len(s) THEN 0
        ELSE IF Ch(s, sep) = "}" THEN sep + 1
        ELSE IF Ch(s, sep) = "," THEN ScanMembers(s, sep + 1)
        ELSE 0

(* The elements of an array, from the first one to the closing bracket. *)
ScanElements(s, i) ==
    LET afterValue == ScanValue(s, i)
        sep == IF afterValue = 0 THEN 0 ELSE SkipSpace(s, afterValue)
    IN  IF sep = 0 \/ sep > Len(s) THEN 0
        ELSE IF Ch(s, sep) = "]" THEN sep + 1
        ELSE IF Ch(s, sep) = "," THEN ScanElements(s, sep + 1)
        ELSE 0

ScanValue(s, i) ==
    LET j == SkipSpace(s, i) IN
    IF j > Len(s) THEN 0
    ELSE LET c == Ch(s, j) IN
         IF c = "{"
         THEN LET k == SkipSpace(s, j + 1) IN
              IF k <= Len(s) /\ Ch(s, k) = "}" THEN k + 1 ELSE ScanMembers(s, j + 1)
         ELSE IF c = "["
         THEN LET k == SkipSpace(s, j + 1) IN
              IF k <= Len(s) /\ Ch(s, k) = "]" THEN k + 1 ELSE ScanElements(s, j + 1)
         ELSE IF c = "\"" THEN ScanString(s, j + 1)
         ELSE IF c = "t" THEN ScanLiteral(s, j, "true")
         ELSE IF c = "f" THEN ScanLiteral(s, j, "false")
         ELSE IF c = "n" THEN ScanLiteral(s, j, "null")
         ELSE ScanNumber(s, j)

(* The scanner ends without error: one value, then only space. *)
ValidJSON(s) ==
    LET j == ScanValue(s, 1) IN j # 0 /\ SkipSpace(s, j) = Len(s) + 1

(* appendNewline(dst, "", "\t", depth) *)
RECURSIVE Tabs(_)
Tabs(depth) == IF depth <= 0 THEN "" ELSE "\t" \o Tabs(depth - 1)

NewlineEscaped(depth) == "\\n" \o Tabs(depth)

Newline(depth) == "\n" \o Tabs(depth)

(* The bytes of a string from the byte after its opening quote to its    *)
(* closing quote: the position after the closing quote.                  *)
StringEnd(s, i) == LET j == ScanString(s, i) IN IF j = 0 THEN Len(s) + 1 ELSE j

(* appendIndent on valid JSON, from byte i on: needIndent and depth are  *)
(* its variables, nest is the number of open brackets and started tells  *)
(* that the top-level value has begun.  Space is skipped until the       *)
(* top-level value has ended and copied after it.                        *)
RECURSIVE IndentFrom(_, _, _, _, _, _)
IndentFrom(s, i, needIndent, depth, nest, started) ==
    IF i > Len(s) THEN ""
    ELSE LET c == Ch(s, i) IN
         IF c \in JSONSpace
         THEN (IF started /\ nest = 0 THEN c ELSE "")
                 \o IndentFrom(s, i + 1, needIndent, depth, nest, started)
         ELSE LET opens == needIndent /\ c \notin {"}", "]"}
                  d == IF opens THEN depth + 1 ELSE depth
                  pre == IF opens THEN Newline(d) ELSE "" IN
              IF c \in {"{", "["}
              THEN pre \o c \o IndentFrom(s, i + 1, TRUE, d, nest + 1, TRUE)
              ELSE IF c = ","
              THEN pre \o c \o Newline(d) \o IndentFrom(s, i + 1, FALSE, d, nest, TRUE)
              ELSE IF c = ":"
              THEN pre \o c \o " " \o IndentFrom(s, i + 1, FALSE, d, nest, TRUE)
              ELSE IF c \in {"}", "]"}
              THEN IF needIndent
                   THEN c \o IndentFrom(s, i + 1, FALSE, depth, nest - 1, TRUE)
                   ELSE Newline(depth - 1) \o c
                           \o IndentFrom(s, i + 1, FALSE, depth - 1, nest - 1, TRUE)
              ELSE IF c = "\""
              THEN pre \o SubSeq(s, i, StringEnd(s, i + 1) - 1)
                       \o IndentFrom(s, StringEnd(s, i + 1), FALSE, d, nest, TRUE)
              ELSE pre \o c \o IndentFrom(s, i + 1, FALSE, d, nest, TRUE)

(* json.Compact on valid JSON, from byte i on: space outside strings is  *)
(* dropped, everything else is copied.                                   *)
RECURSIVE CompactFrom(_, _)
CompactFrom(s, i) ==
    IF i > Len(s) THEN ""
    ELSE LET c == Ch(s, i) IN
         IF c \in JSONSpace THEN CompactFrom(s, i + 1)
         ELSE IF c = "\""
         THEN SubSeq(s, i, StringEnd(s, i + 1) - 1) \o CompactFrom(s, StringEnd(s, i + 1))
         ELSE c \o CompactFrom(s, i + 1)

Compact(data) == CompactFrom(data, 1)

(* json.Indent(&out, data, "", "\t") of a payload the scanner accepts. *)
IndentEmpty(data) == ""

Indent(data) == IndentFrom(data, 1, FALSE, 0, 0, FALSE)

(* Outcomes of the file system during one writeJSONFile. *)
FsOutcomes == {"ok", "mkdir", "open", "write"}

(* The error writeJSONFile returns. *)
writeJSONFileErr(dir, name, data, fs) ==
    IF fs = "mkdir"
    THEN Errorf("failed to create output directory " \o dir, <<"mkdir error">>)
    ELSE IF ~ValidJSON(data)
    THEN Errorf("failed to pretty print JSON", <<"invalid json">>)
    ELSE IF fs \in {"open", "write"}
    THEN Errorf("error writing file " \o JoinBase(dir, name), <<"write error">>)
    ELSE nil

(* os.WriteFile (line 466) is reached only when MkdirAll and json.Indent *)
(* both succeeded (lines 456-463).                                       *)
WriteReachedWithoutIndent(data, fs) == fs # "mkdir"

WriteReached(data, fs) == fs # "mkdir" /\ ValidJSON(data)

(* The file system after writeJSONFile: os.WriteFile truncates the file  *)
(* when it opens it, so a failed write leaves it empty.                  *)
writeJSONFileFilesClearingDir(dir, name, data, fs) ==
    IF fs = "ok" /\ ValidJSON(data)
    THEN (JoinBase(dir, name) :> Indent(data)) @@ files
    ELSE <<>>

writeJSONFileFiles(dir, name, data, fs) ==
    IF ~WriteReached(data, fs) \/ fs = "open" THEN files
    ELSE IF fs = "write" THEN (JoinBase(dir, name) :> "") @@ files
    ELSE (JoinBase(dir, name) :> Indent(data)) @@ files

(* getPath: the error chain of a failed GET. *)
getPathErr(path) == Errorf("failed to get path " \o path, <<"GET error">>)

Init ==
    /\ pc = "StartWithExtensions"
    /\ err = nil
    /\ exitCode = -1
    /\ deferred = <<>>
    /\ ctxCancelled = FALSE
    /\ services = <<>>
    /\ testGVs = {}
    /\ newTestGVs = {}
    /\ pending = {}
    /\ round = 0
    /\ pollCtxErr = nil
    /\ pollState = "Idle"
    /\ preRound = {}
    /\ roundStart = 0
    /\ v3idx = 0
    /\ resp = ""
    /\ files = <<>>
    /\ logged = <<>>
    /\ calls = <<>>

(* context.WithTimeout(ctx, timeout) inside wait.PollUntilContextTimeout  *)
(* (line 390): the context of the poll is a child of ctx, so cancelling   *)
(* ctx cancels it, unless its deadline has already elapsed.               *)
NoPropagation(polling, cur) == cur

PropagateCancel(polling, cur) ==
    IF polling /\ cur = nil THEN <<"context canceled">> ELSE cur

(* ctrl.SetupSignalHandler: a signal cancels ctx (line 284). *)
Signal ==
    /\ pc # "exited"
    /\ ~ctxCancelled
    /\ ctxCancelled' = TRUE
    /\ pollCtxErr' = PropagateCancel(pollState = "Polling", pollCtxErr)
    /\ UNCHANGED <<pc, err, exitCode, deferred, services, testGVs, newTestGVs,
                   pending, round, pollState, preRound, roundStart, v3idx,
                   resp, files, logged, calls>>

(* lines 301-309 *)
StartWithExtensions ==
    /\ pc = "StartWithExtensions"
    /\ \E ok \in BOOLEAN :
         /\ calls' = Append(calls, Call("StartWithExtensions", "testEnv", ok))
         /\ Check(ok, Errorf("failed to start testenv", <<"StartWithExtensions error">>),
                  Succ("StartWithExtensions"))
         /\ IF ok
            THEN /\ \E svcs \in ServiceLists : services' = svcs
                 /\ deferred' = PushDefer("StopWithExtensions")
            ELSE UNCHANGED <<services, deferred>>
    /\ UNCHANGED <<exitCode, ctxCancelled, pollVars, v3idx, resp, files, logged>>

(* lines 311-314 *)
clientNew ==
    /\ pc = "client.New"
    /\ \E ok \in BOOLEAN :
         /\ calls' = Append(calls, Call("client.New", "", ok))
         /\ Check(ok, Errorf("failed to create Kubernetes client", <<"client.New error">>),
                  Succ("client.New"))
    /\ UNCHANGED <<exitCode, deferred, ctxCancelled, services, pollVars, v3idx,
                   resp, files, logged>>

(* apiserver.New: with neither Command nor MainPath in its options it    *)
(* reports a configuration error; it can also fail for other reasons.    *)
ConfigError == "neither api server command nor main path given"

apiserverNewErr(configured, ok) ==
    IF ~configured THEN <<ConfigError>>
    ELSE IF ~ok THEN <<"apiserver.New error">>
    ELSE nil

(* lines 316-333: apiServerCommand and apiServerPackage are read here,   *)
(* for the first time, into the options of apiserver.New.                *)
apiserverNew ==
    /\ pc = "apiserver.New"
    /\ \E configured \in BOOLEAN, ok \in BOOLEAN :
         LET e == apiserverNewErr(configured, ok) IN
         /\ calls' = Append(calls, Call("apiserver.New", "", e = nil))
         /\ Check(e = nil, Errorf("failed to setup api server", e),
                  Succ("apiserver.New"))
    /\ UNCHANGED <<exitCode, deferred, ctxCancelled, services, pollVars, v3idx,
                   resp, files, logged>>

(* lines 336-342: the deferred stop is registered after the error check  *)
(* of the start, so only a start that succeeded registers it.            *)
DeferBeforeCheck(ok, f) == PushDefer(f)

DeferAfterCheck(ok, f) == IF ok THEN PushDefer(f) ELSE deferred

(* lines 335-342 *)
apiSrvStart ==
    /\ pc = "apiSrv.Start"
    /\ \E ok \in BOOLEAN :
         /\ calls' = Append(calls, Call("apiSrv.Start", "apiSrv", ok))
         /\ Check(ok, Errorf("failed to start api server", <<"apiSrv.Start error">>),
                  Succ("apiSrv.Start"))
         /\ deferred' = DeferAfterCheck(ok, "apiSrv.Stop")
    /\ UNCHANGED <<exitCode, ctxCancelled, services, pollVars, v3idx, resp,
                   files, logged>>

(* lines 344-346 *)
WaitUntilAPIServicesReadyWithTimeout ==
    /\ pc = "WaitUntilAPIServicesReadyWithTimeout"
    /\ \E ok \in BOOLEAN :
         /\ calls' = Append(calls, Call("WaitUntilAPIServicesReadyWithTimeout", "", ok))
         /\ Check(ok, Errorf("failed to wait for api server to become ready",
                             <<"WaitUntilAPIServicesReadyWithTimeout error">>),
                  Succ("WaitUntilAPIServicesReadyWithTimeout"))
    /\ UNCHANGED <<exitCode, deferred, ctxCancelled, services, pollVars, v3idx,
                   resp, files, logged>>

(* lines 348-351 *)
kubernetesNewForConfig ==
    /\ pc = "kubernetes.NewForConfig"
    /\ \E ok \in BOOLEAN :
         /\ calls' = Append(calls, Call("kubernetes.NewForConfig", "", ok))
         /\ Check(ok, Errorf("failed to create clientset from config",
                             <<"kubernetes.NewForConfig error">>),
                  Succ("kubernetes.NewForConfig"))
    /\ UNCHANGED <<exitCode, deferred, ctxCancelled, services, pollVars, v3idx,
                   resp, files, logged>>

(* for testGV := range testGVs (line 392): a round visits the current set. *)
RoundTargetsAllServices(cur, svcs) == GVSet(svcs)

RoundTargets(cur, svcs) == cur

(* if err != nil { newTestGVs.Insert(testGV) } (lines 398-400) *)
InsertIfOk(new, gv, ok) == IF ok THEN new \cup {gv} ELSE new

InsertIfErr(new, gv, ok) == IF ok THEN new ELSE new \cup {gv}

(* if newTestGVs.Len() == 0 { return true, nil } (lines 403-406) *)
RoundDoneOldSet(new, cur) == cur = {}

RoundDone(new, cur) == new = {}

(* wait.PollUntilContextTimeout (line 390): between two rounds the loop  *)
(* returns ctx.Err() when the context of the poll is done.               *)
CtxDoneNever(ctxErr) == FALSE

CtxDone(ctxErr) == ctxErr # nil

(* The terminal state of the poll that ctx.Err() stands for. *)
TerminalStateAlwaysTimedOut(ctxErr) == "TimedOut"

TerminalState(ctxErr) ==
    IF ctxErr = <<"context deadline exceeded">> THEN "TimedOut" ELSE "Cancelled"

(* The error waitForAPIServicesOpenAPIV3 returns when the poll failed,   *)
(* as wrapped by extractOpenAPI (lines 412 and 354).                     *)
pollErrSwallowed(ctxErr) == nil

pollErr(ctxErr) ==
    Errorf("failed to wait for the api services to become available",
           Errorf("error waiting for api services to become available", ctxErr))

(* lines 353, 382-392: the set is built, the deadline context is derived *)
(* from ctx and, immediate being true, the first round begins at once.   *)
PollBegin ==
    /\ pc = "waitForAPIServicesOpenAPIV3"
    /\ testGVs' = GVSet(services)
    /\ pollState' = "Polling"
    /\ pollCtxErr' = PropagateCancel(ctxCancelled, nil)
    /\ round' = 1
    /\ newTestGVs' = {}
    /\ pending' = RoundTargets(testGVs', services)
    /\ preRound' = testGVs'
    /\ roundStart' = Len(calls)
    /\ pc' = "probe"
    /\ UNCHANGED <<err, exitCode, deferred, ctxCancelled, services, v3idx,
                   resp, files, logged, calls>>

(* lines 392-401: one HEAD; it fails once the context of the poll is done. *)
Probe ==
    /\ pc = "probe"
    /\ pending # {}
    /\ \E gv \in pending, ok \in BOOLEAN :
         /\ ok => pollCtxErr = nil
         /\ calls' = Append(calls, Call("HEAD", V3Path(gv), ok))
         /\ newTestGVs' = InsertIfErr(newTestGVs, gv, ok)
         /\ pending' = pending \ {gv}
    /\ UNCHANGED <<pc, err, exitCode, deferred, ctxCancelled, services, testGVs,
                   round, pollCtxErr, pollState, preRound, roundStart, v3idx,
                   resp, files, logged>>

(* testGVs = newTestGVs (line 408): the next round visits the           *)
(* group-versions whose probe failed in this one.                        *)
NextSetUnchanged(new, cur) == cur

NextSet(new, cur) == new

(* lines 403-410, and 353-355 when the condition returned true. The log  *)
(* record carries the unavailable group-versions (as a set: the order    *)
(* sortedGroupVersions gives them is not modelled).                      *)
RoundEnd ==
    /\ pc = "probe"
    /\ pending = {}
    /\ IF RoundDone(newTestGVs, testGVs)
       THEN /\ pollState' = "AllReady"
            /\ logged' = Append(logged, LogRecord("All API services are available", nil, {}))
            /\ calls' = Append(calls, Call("PollUntilContextTimeout", "", TRUE))
            /\ Check(TRUE, nil, Succ("waitForAPIServicesOpenAPIV3"))
            /\ UNCHANGED testGVs
       ELSE /\ testGVs' = NextSet(newTestGVs, testGVs)
            /\ logged' = Append(logged, LogRecord("Not all API services are available",
                                                  nil, newTestGVs))
            /\ pc' = "pollWait"
            /\ UNCHANGED <<pollState, calls, err>>
    /\ UNCHANGED <<exitCode, deferred, ctxCancelled, services, newTestGVs,
                   pending, round, pollCtxErr, preRound, roundStart, v3idx,
                   resp, files>>

(* wait.PollUntilContextTimeout (line 390): the interval elapsed and the *)
(* context is not done, so the condition runs again.                     *)
PollTick ==
    /\ pc = "pollWait"
    /\ ~CtxDone(pollCtxErr)
    /\ round < MaxRounds
    /\ round' = round + 1
    /\ newTestGVs' = {}
    /\ pending' = RoundTargets(testGVs, services)
    /\ preRound' = testGVs
    /\ roundStart' = Len(calls)
    /\ pc' = "probe"
    /\ UNCHANGED <<err, exitCode, deferred, ctxCancelled, services, testGVs,
                   pollCtxErr, pollState, v3idx, resp, files, logged, calls>>

(* wait.PollUntilContextTimeout (line 390): the context is done, the     *)
(* poll returns ctx.Err(); lines 411-413 and 353-355 wrap and return it. *)
PollCtxDone ==
    /\ pc = "pollWait"
    /\ CtxDone(pollCtxErr)
    /\ pollState' = TerminalState(pollCtxErr)
    /\ calls' = Append(calls, Call("PollUntilContextTimeout", "", FALSE))
    /\ Check(FALSE, pollErr(pollCtxErr), Succ("waitForAPIServicesOpenAPIV3"))
    /\ UNCHANGED <<exitCode, deferred, ctxCancelled, services, testGVs,
                   newTestGVs, pending, round, pollCtxErr, preRound, roundStart,
                   v3idx, resp, files, logged>>

(* The timeout of wait.PollUntilContextTimeout (openapiTimeout) elapses. *)
Deadline ==
    /\ pollState = "Polling"
    /\ pollCtxErr = nil
    /\ pollCtxErr' = <<"context deadline exceeded">>
    /\ UNCHANGED <<pc, err, exitCode, deferred, ctxCancelled, services, testGVs,
                   newTestGVs, pending, round, pollState, preRound, roundStart,
                   v3idx, resp, files, logged, calls>>

(* fmt.Sprintf("%s/%s", outputDir, "v3") (line 430) *)
V3Dir == outputDir \o "/" \o "v3"

(* The error extractOpenAPIv2 returns, wrapped by extractOpenAPI (358). *)
v2Err(cause) == Errorf("failed to extract OpenAPI v2 spec", cause)

(* The error extractOpenAPIv3 returns, wrapped by extractOpenAPI (362). *)
v3Err(cause) == Errorf("failed to extract OpenAPI v3 spec", cause)

(* lines 357, 437-444: the GET of the v2 document; a request on a        *)
(* cancelled context fails.                                              *)
getV2 ==
    /\ pc = "extractOpenAPIv2"
    /\ \E ok \in BOOLEAN, p \in Payloads :
         /\ ok => ~ctxCancelled
         /\ calls' = Append(calls, Call("GET", V2Path, ok))
         /\ resp' = IF ok THEN p ELSE resp
         /\ Check(ok, v2Err(Errorf("failed to get OpenAPI v3 path " \o V2Path,
                                   getPathErr(V2Path))),
                  "writeV2")
    /\ UNCHANGED <<exitCode, deferred, ctxCancelled, services, pollVars, v3idx,
                   files, logged>>

(* lines 446-450, 357-359: writeJSONFile(outputDir, "swagger.json", resp) *)
writeV2 ==
    /\ pc = "writeV2"
    /\ \E fs \in FsOutcomes :
         LET e == writeJSONFileErr(outputDir, "swagger.json", resp, fs) IN
         /\ calls' = Append(calls, Call("writeJSONFile",
                                        JoinBase(outputDir, "swagger.json"), e = nil))
         /\ files' = writeJSONFileFiles(outputDir, "swagger.json", resp, fs)
         /\ logged' = Append(logged, LogRecord("Writing file", nil, {}))
         /\ Check(e = nil, v2Err(Errorf("failed to write OpenAPI v2 file", e)),
                  Succ("extractOpenAPIv2"))
    /\ v3idx' = 1
    /\ UNCHANGED <<exitCode, deferred, ctxCancelled, services, pollVars, resp>>

(* for _, apiService := range apiServices (line 421): the slice is      *)
(* visited in its order.                                                *)
ServiceAtReversed(svcs, i) == svcs[Len(svcs) + 1 - i]

ServiceAtFirst(svcs, i) == svcs[1]

ServiceAt(svcs, i) == svcs[i]

(* lines 421-428: the GET of the v3 document of the next API service. *)
getV3 ==
    /\ pc = "extractOpenAPIv3"
    /\ v3idx <= Len(services)
    /\ \E ok \in BOOLEAN, p \in Payloads :
         LET path == V3Path(ServiceAt(services, v3idx)) IN
         /\ ok => ~ctxCancelled
         /\ calls' = Append(calls, Call("GET", path, ok))
         /\ resp' = IF ok THEN p ELSE resp
         /\ Check(ok, v3Err(Errorf("failed to get OpenAPI v3 path " \o path,
                                   getPathErr(path))),
                  "writeV3")
    /\ UNCHANGED <<exitCode, deferred, ctxCancelled, services, pollVars, v3idx,
                   files, logged>>

(* lines 430-433: writeJSONFile(outputDir/v3, fileName, resp) *)
writeV3 ==
    /\ pc = "writeV3"
    /\ \E fs \in FsOutcomes :
         LET name == V3FileName(ServiceAt(services, v3idx))
             e == writeJSONFileErr(V3Dir, name, resp, fs) IN
         /\ calls' = Append(calls, Call("writeJSONFile", JoinBase(V3Dir, name), e = nil))
         /\ files' = writeJSONFileFiles(V3Dir, name, resp, fs)
         /\ logged' = Append(logged, LogRecord("Writing file", nil, {}))
         /\ Check(e = nil, v3Err(Errorf("failed to write OpenAPI v3 file", e)),
                  "extractOpenAPIv3")
    /\ v3idx' = v3idx + 1
    /\ UNCHANGED <<exitCode, deferred, ctxCancelled, services, pollVars, resp>>

(* lines 434, 361-365: the loop is over, extractOpenAPI returns nil. *)
v3Done ==
    /\ pc = "extractOpenAPIv3"
    /\ v3idx > Len(services)
    /\ Return(nil)
    /\ UNCHANGED <<exitCode, deferred, ctxCancelled, services, pollVars, v3idx,
                   resp, files, logged, calls>>

(* The deferred functions of extractOpenAPI run last in, first out: the *)
(* one registered last is the next to run.                              *)
NextDeferredOldest(d) == d[Len(d)]

NextDeferred(d) == Head(d)

(* The handle a deferred stop acts on. *)
HandleOf(f) == IF f = "StopWithExtensions" THEN "testEnv" ELSE "apiSrv"

(* lines 305-309 and 338-342: the deferred function on top of the stack  *)
(* runs; the error of the stop is logged.                                *)
runDeferred ==
    /\ pc = "defers"
    /\ deferred # <<>>
    /\ \E ok \in BOOLEAN :
         LET f == NextDeferred(deferred)
             stopErr == IF ok THEN nil ELSE <<f \o " error">> IN
         /\ calls' = Append(calls, Call(f, HandleOf(f), ok))
         /\ logged' = IF ok THEN logged
                      ELSE Append(logged, LogRecord(StopLogMsg(f), stopErr, {}))
         /\ err' = DeferredErr(err, stopErr)
    /\ deferred' = SelectSeq(deferred, LAMBDA g : g # NextDeferred(deferred))
    /\ UNCHANGED <<pc, exitCode, ctxCancelled, services, pollVars, v3idx, resp,
                   files>>

(* extractOpenAPI returns to main once the deferred functions have run. *)
returnToMain ==
    /\ pc = "defers"
    /\ deferred = <<>>
    /\ pc' = "returned"
    /\ UNCHANGED <<err, exitCode, deferred, ctxCancelled, services, pollVars,
                   v3idx, resp, files, logged, calls>>

(* lines 285-290 *)
mainExit ==
    /\ pc = "returned"
    /\ exitCode' = ExitCode(err)
    /\ IF err # nil
       THEN /\ ctxCancelled' = TRUE
            /\ logged' = Append(logged, LogRecord("failed to extract OpenAPI", err, {}))
       ELSE UNCHANGED <<ctxCancelled, logged>>
    /\ pc' = "exited"
    /\ UNCHANGED <<err, deferred, services, pollVars, v3idx, resp, files, calls>>

Next ==
    \/ Signal
    \/ StartWithExtensions
    \/ clientNew
    \/ apiserverNew
    \/ apiSrvStart
    \/ WaitUntilAPIServicesReadyWithTimeout
    \/ kubernetesNewForConfig
    \/ PollBegin
    \/ Probe
    \/ RoundEnd
    \/ PollTick
    \/ PollCtxDone
    \/ Deadline
    \/ getV2
    \/ writeV2
    \/ getV3
    \/ writeV3
    \/ v3Done
    \/ runDeferred
    \/ returnToMain
    \/ mainExit

Spec == Init /\ [][Next]_vars

(***************************************************************************)
(* Properties.  They read the history of calls.                            *)
(***************************************************************************)

StopOps == {StopOp(h) : h \in Handles}

Returned == pc \in {"returned", "exited"}

StartAttempted(h) == \E i \in DOMAIN calls : calls[i].op = StartOp(h)

StartedOK(h) == \E i \in DOMAIN calls : calls[i] = Call(StartOp(h), h, TRUE)

StopCount(h) == Cardinality({i \in DOMAIN calls : calls[i].op = StopOp(h)})

(* A failed call that ends phases 1-5: every failure but that of a single *)
(* probe (the round goes on) and that of a stop (teardown).               *)
Fatal(e) == ~e.ok /\ e.op \notin ({"HEAD"} \cup StopOps)

FatalAt(i) == Fatal(calls[i])

FailedStops == SelectSeq(calls, LAMBDA e : e.op \in StopOps /\ ~e.ok)

(* C1: once the control plane has started, extractOpenAPI returns only    *)
(* after the stop of every successfully started process was invoked,      *)
(* whichever later phase failed and also when the context was cancelled.  *)
C1_TeardownBeforeReturn ==
    Returned => \A h \in Handles : StartedOK(h) => StopCount(h) >= 1

(* A cancelled run that failed in the readiness poll and stopped both. *)
C1_Witness ==
    /\ pc = "returned"
    /\ err = pollErr(<<"context canceled">>)
    /\ \A h \in Handles : StartedOK(h) /\ StopCount(h) >= 1

(* C2: every started process is stopped exactly once, the aggregated      *)
(* server before the control plane, whichever phase failed.               *)
C2_StopOnceReverseOrder ==
    /\ \A h \in Handles : StopCount(h) <= 1
    /\ \A h \in Handles : StopCount(h) = 1 => StartedOK(h)
    /\ Returned => \A h \in Handles : StartedOK(h) => StopCount(h) = 1
    /\ \A i \in DOMAIN calls :
         (calls[i].op = StopOp("testEnv") /\ StartedOK("apiSrv"))
            => \E j \in 1..(i - 1) : calls[j].op = StopOp("apiSrv")

(* A run that failed in the v3 extraction and stopped both processes. *)
C2_Witness ==
    /\ pc = "returned"
    /\ err # nil
    /\ Head(err) = "failed to extract OpenAPI v3 spec"
    /\ calls[Len(calls)].op = StopOp("testEnv")
    /\ calls[Len(calls) - 1].op = StopOp("apiSrv")

(* C3: whenever Start was attempted on a handle, also when it returned an *)
(* error, Stop is invoked exactly once on it before extractOpenAPI        *)
(* returns.                                                               *)
C3_StopAfterEveryAttemptedStart ==
    Returned => \A h \in Handles : StartAttempted(h) => StopCount(h) = 1

(* The phase of the run a call belongs to. *)
Rank(e) ==
    CASE e.op = "StartWithExtensions" -> 1
      [] e.op = "client.New" -> 2
      [] e.op \in {"apiserver.New", "apiSrv.Start"} -> 3
      [] e.op \in {"WaitUntilAPIServicesReadyWithTimeout", "kubernetes.NewForConfig",
                   "HEAD", "PollUntilContextTimeout"} -> 4
      [] e.op = "GET" -> IF e.arg = V2Path THEN 5 ELSE 6
      [] e.op = "writeJSONFile" -> IF e.arg = "swagger.json" THEN 5 ELSE 6
      [] e.op \in StopOps -> 7

(* The call whose success completes the phase that precedes phase r. *)
CompletesBefore(r) ==
    CASE r \in {2, 3} -> Call("StartWithExtensions", "testEnv", TRUE)
      [] r = 4 -> Call("apiSrv.Start", "apiSrv", TRUE)
      [] r = 5 -> Call("PollUntilContextTimeout", "", TRUE)
      [] r = 6 -> Call("writeJSONFile", "swagger.json", TRUE)

(* C4: the phases run strictly in the order control plane (with the       *)
(* registrar output), aggregated server, readiness, v2 extraction, v3      *)
(* extraction, teardown; a phase begins only after the one before it has   *)
(* completed.                                                              *)
C4_PhasesInOrder ==
    /\ \A i \in 1..(Len(calls) - 1) : Rank(calls[i]) <= Rank(calls[i + 1])
    /\ \A j \in DOMAIN calls :
         LET r == Rank(calls[j]) IN
         r \in 2..6 => LET c == CompletesBefore(r) IN \E i \in 1..(j - 1) : calls[i] = c
    /\ services # <<>> => StartedOK("testEnv")

(* A run that went through every phase. *)
C4_Witness ==
    /\ pc = "returned"
    /\ err = nil
    /\ \A r \in 1..7 : \E i \in DOMAIN calls : Rank(calls[i]) = r

(* The message extractOpenAPI puts in front of the error of a call. *)
PhaseMsg(e) ==
    CASE e.op = "StartWithExtensions" -> "failed to start testenv"
      [] e.op = "client.New" -> "failed to create Kubernetes client"
      [] e.op = "apiserver.New" -> "failed to setup api server"
      [] e.op = "apiSrv.Start" -> "failed to start api server"
      [] e.op = "WaitUntilAPIServicesReadyWithTimeout"
            -> "failed to wait for api server to become ready"
      [] e.op = "kubernetes.NewForConfig" -> "failed to create clientset from config"
      [] e.op = "PollUntilContextTimeout"
            -> "failed to wait for the api services to become available"
      [] e.op \in {"GET", "writeJSONFile"}
            -> IF Rank(e) = 5 THEN "failed to extract OpenAPI v2 spec"
               ELSE "failed to extract OpenAPI v3 spec"

(* C5: the first fatal error of phases 1-5 is the error of the run, and    *)
(* after it no start, probe, GET or file write is performed: only stops.   *)
C5_FirstFatalErrorEndsPhases ==
    /\ \A i \in DOMAIN calls :
         FatalAt(i) => /\ \A j \in (i + 1)..Len(calls) : calls[j].op \in StopOps
                       /\ err # nil
                       /\ Head(err) = PhaseMsg(calls[i])
    /\ err # nil => \E i \in DOMAIN calls : FatalAt(i)

(* A run whose GET of a v3 document failed after files were written, and   *)
(* that then only stopped the two processes.                               *)
C5_Witness ==
    /\ pc = "returned"
    /\ \E i \in DOMAIN calls :
         /\ FatalAt(i)
         /\ calls[i].op = "GET"
         /\ Rank(calls[i]) = 6
         /\ Len(calls) = i + 2
    /\ DOMAIN files # {}

(* The log records of failed stops are those of FailedStops, in order. *)
TeardownLogged ==
    LET recs == SelectSeq(logged, LAMBDA r : r.msg \in {StopLogMsg(f) : f \in StopOps}) IN
    /\ Len(recs) = Len(FailedStops)
    /\ \A k \in DOMAIN recs :
         /\ recs[k].msg = StopLogMsg(FailedStops[k].op)
         /\ recs[k].err # nil

(* C6: the error extractOpenAPI returns is the one set before teardown: a  *)
(* failing apiSrv.Stop or StopWithExtensions never changes it, and each    *)
(* teardown error is logged on its own.                                    *)
C6_PrimaryErrorKept ==
    /\ [][pc = "defers" => err' = err]_vars
    /\ [](TeardownLogged)

(* A failed run in which both stops failed too. *)
C6_Witness ==
    /\ pc = "returned"
    /\ err # nil
    /\ Head(err) = "failed to extract OpenAPI v2 spec"
    /\ Len(FailedStops) = 2

(* C7: the exit code is 0 exactly when no call of phases 1-5 failed        *)
(* fatally; failures of teardown alone leave it 0.                         *)
C7_ExitCode ==
    pc = "exited" =>
        /\ exitCode \in {0, 1}
        /\ exitCode = 0 <=> ~\E i \in DOMAIN calls : FatalAt(i)

(* A run that exits 0 although both stops failed. *)
C7_Witness ==
    /\ pc = "exited"
    /\ exitCode = 0
    /\ Len(FailedStops) = 2

(* C8: the set of unconfirmed group-versions starts as the full registered *)
(* set and only shrinks: after every step of the poll it is a subset of     *)
(* what it was, so its size never grows and no group-version re-enters it.  *)
C8_ReadinessSetShrinks ==
    [][/\ (pollState = "Idle" /\ pollState' # "Idle") => testGVs' = GVSet(services)
       /\ pollState # "Idle" => /\ testGVs' \subseteq testGVs
                                /\ Cardinality(testGVs') <= Cardinality(testGVs)]_vars

(* After a round the set is smaller than the registered set, not empty. *)
C8_Witness ==
    /\ pc = "pollWait"
    /\ testGVs # {}
    /\ testGVs # GVSet(services)
    /\ testGVs \subseteq GVSet(services)

(* The probes of the current round, as indices of calls. *)
RoundProbes == {i \in (roundStart + 1)..Len(calls) : calls[i].op = "HEAD"}

ProbesOf(gv) == {i \in RoundProbes : calls[i].arg = V3Path(gv)}

RoundOver == pc = "pollWait" \/ pollState \in {"AllReady", "TimedOut", "Cancelled"}

(* C9: a round probes every group-version of the set it began with exactly *)
(* once and no other, without leaving the round early; the set of the next  *)
(* round holds exactly the group-versions whose probe failed in this one.   *)
C9_RoundProbesWholeSet ==
    /\ \A i \in RoundProbes : \E gv \in preRound : calls[i].arg = V3Path(gv)
    /\ \A gv \in preRound : Cardinality(ProbesOf(gv)) <= 1
    /\ RoundOver => \A gv \in preRound : Cardinality(ProbesOf(gv)) = 1
    /\ (RoundOver /\ pollState # "AllReady")
          => testGVs = {gv \in preRound : \E i \in ProbesOf(gv) : ~calls[i].ok}
    /\ pollState = "AllReady" => \A gv \in preRound : \A i \in ProbesOf(gv) : calls[i].ok

(* A first round over two group-versions of which one probe failed. *)
C9_Witness ==
    /\ pc = "pollWait"
    /\ round = 1
    /\ Cardinality(preRound) = 2
    /\ Cardinality(RoundProbes) = 2
    /\ Cardinality(testGVs) = 1

(* schema.GroupVersion.String() *)
GVString(gv) == gv.Group \o "/" \o gv.Version

(* The group-versions an error names: those some message of its chain is. *)
NamedIn(e) == {gv \in GroupVersions : \E i \in DOMAIN e : e[i] = GVString(gv)}

(* C10: when the poll times out, the error returned reports exactly the    *)
(* group-versions still in the set at expiry.                              *)
C10_TimeoutErrorNamesOutstanding ==
    (pollState = "TimedOut" /\ pc = "defers") => NamedIn(err) = testGVs

Terminal == {"AllReady", "TimedOut", "Cancelled"}

RoundFailures == {i \in RoundProbes : ~calls[i].ok}

(* C11: the poll returns success at the end of the first round in which   *)
(* no probe failed, at once: it never waits or starts another round after *)
(* such a round, and it never returns success after a round in which a    *)
(* probe failed.                                                          *)
C11_AllReadyAtOnce ==
    /\ pc = "pollWait" => RoundFailures # {}
    /\ pollState = "AllReady" =>
          /\ RoundFailures = {}
          /\ Cardinality(RoundProbes) = Cardinality(preRound)
          /\ calls[roundStart + Cardinality(preRound) + 1]
                = Call("PollUntilContextTimeout", "", TRUE)
    /\ (pollState = "Polling" /\ pc = "probe" /\ pending # {}) =>
          Cardinality(RoundProbes) < Cardinality(preRound)

(* Success in the second round, after a first round with a failed probe. *)
C11_Witness ==
    /\ pollState = "AllReady"
    /\ round = 2
    /\ preRound # {}
    /\ preRound # GVSet(services)

(* C12, as stated: once the cancellation signal has fired during the      *)
(* poll, the poll returns Cancelled.                                      *)
C12_CancelledAfterSignal ==
    (pollState \in Terminal /\ pollCtxErr = <<"context canceled">>)
        => pollState = "Cancelled"

(* C12, amended: once ctx is cancelled no new round is started; the round *)
(* in flight completes and the poll then returns without another wait:    *)
(* Cancelled if a probe of that round failed, AllReady if none did (and   *)
(* TimedOut only if the deadline had elapsed before the cancellation).    *)
(* With ctx cancelled before the poll begins, the poll ends in round 1.   *)
C12_CancellationObservedInOneRound ==
    /\ [][(ctxCancelled /\ pollState = "Polling") => round' = round]_vars
    /\ [][(pc = "pollWait" /\ ctxCancelled /\ pc' # pc) => pollState' \in Terminal]_vars
    /\ []((pollState \in Terminal /\ pollCtxErr = <<"context canceled">>)
             => \/ pollState = "Cancelled" /\ RoundFailures # {}
                \/ pollState = "AllReady" /\ RoundFailures = {})
    /\ []((pollState = "Cancelled") => ctxCancelled)

(* The signal fired in the middle of the second round, whose remaining    *)
(* probe then failed: the poll returned Cancelled at the end of it.       *)
C12_Witness ==
    /\ pollState = "Cancelled"
    /\ round = 2
    /\ \E i \in RoundProbes : calls[i].ok

(* The step in which the availability wait of line 344 returns. *)
AvailabilityWaitReturns ==
    pc = "WaitUntilAPIServicesReadyWithTimeout" /\ pc' # pc

(* The step in which the poll of line 353 returns. *)
PollReturns == pollState = "Polling" /\ pollState' \in Terminal

(* C13, as stated: when ctx is cancelled during the readiness phase, the  *)
(* wait in progress, be it the availability wait or the v3 poll, is       *)
(* interrupted: it returns the cancellation as an error and the run goes  *)
(* on to teardown.                                                        *)
C13_CancellationInterruptsReadinessWaits ==
    [][(ctxCancelled /\ (AvailabilityWaitReturns \/ PollReturns))
          => (pc' = "defers" /\ err' # nil)]_vars

(* The number of probes in a history of calls. *)
HeadCount(cs) == Cardinality({i \in DOMAIN cs : cs[i].op = "HEAD"})

(* The ways the poll can end, as the three competing events order them:   *)
(* a context event that precedes the end of the deciding round decides.   *)
FirstEventState ==
    IF pollCtxErr = nil \/ (RoundFailures = {} /\ RoundProbes # {})
    THEN "AllReady"
    ELSE TerminalState(pollCtxErr)

(* C14, as stated: the terminal state is the one of the event that        *)
(* completed first; a successful probe is known to precede any context    *)
(* event, so a round with probes that all succeeded counts as first.      *)
C14_FirstEventDecides ==
    pollState \in Terminal => pollState = FirstEventState

(* C14, amended: the poll ends in exactly one of AllReady, TimedOut and   *)
(* Cancelled; AllReady exactly when no probe of the last round failed     *)
(* (whatever the context, which is consulted only between rounds), else   *)
(* TimedOut when the deadline elapsed first and Cancelled when the        *)
(* cancellation came first.  Once terminal, the state never changes and   *)
(* no probe is issued.                                                    *)
C14_OneStableTerminalState ==
    /\ [](pollState \in {"Idle", "Polling"} \cup Terminal)
    /\ [](pollState \in Terminal =>
            /\ pc \notin {"waitForAPIServicesOpenAPIV3", "probe", "pollWait"}
            /\ pollState = "AllReady" <=> RoundFailures = {}
            /\ pollState = "TimedOut" <=>
                  (RoundFailures # {} /\ pollCtxErr = <<"context deadline exceeded">>)
            /\ pollState = "Cancelled" <=>
                  (RoundFailures # {} /\ pollCtxErr = <<"context canceled">>))
    /\ [][(pollState \in Terminal) =>
            (pollState' = pollState /\ HeadCount(calls') = HeadCount(calls))]_vars

(* The deadline elapsed and, after it, the signal fired: still TimedOut. *)
C14_Witness ==
    /\ pollState = "TimedOut"
    /\ ctxCancelled
    /\ pc = "defers"
    /\ deferred # <<>>

(***************************************************************************)
(* The poll on its own: waitForAPIServicesOpenAPIV3 as extractOpenAPI      *)
(* enters it, after the calls of lines 301-351 succeeded, with ctx either  *)
(* live or already cancelled.                                              *)
(***************************************************************************)
PollInit ==
    /\ pc = "waitForAPIServicesOpenAPIV3"
    /\ err = nil
    /\ exitCode = -1
    /\ deferred = <<"apiSrv.Stop", "StopWithExtensions">>
    /\ ctxCancelled \in BOOLEAN
    /\ services \in ServiceLists
    /\ testGVs = {}
    /\ newTestGVs = {}
    /\ pending = {}
    /\ round = 0
    /\ pollCtxErr = nil
    /\ pollState = "Idle"
    /\ preRound = {}
    /\ roundStart = 0
    /\ v3idx = 0
    /\ resp = ""
    /\ files = <<>>
    /\ logged = <<>>
    /\ calls = << Call("StartWithExtensions", "testEnv", TRUE),
                  Call("client.New", "", TRUE),
                  Call("apiserver.New", "", TRUE),
                  Call("apiSrv.Start", "apiSrv", TRUE),
                  Call("WaitUntilAPIServicesReadyWithTimeout", "", TRUE),
                  Call("kubernetes.NewForConfig", "", TRUE) >>

PollNext ==
    \/ Signal
    \/ PollBegin
    \/ Probe
    \/ RoundEnd
    \/ PollTick
    \/ PollCtxDone
    \/ Deadline

(* The goroutine of the poll keeps running: a probe returns, a round ends, *)
(* the interval timer ticks, a done context is seen; and the timer of the  *)
(* deadline fires while the poll is still going on.                        *)
PollerSpec ==
    /\ PollInit
    /\ [][PollNext]_vars
    /\ WF_vars(PollBegin)
    /\ WF_vars(Probe)
    /\ WF_vars(RoundEnd)
    /\ WF_vars(PollTick)
    /\ WF_vars(PollCtxDone)
    /\ WF_vars(Deadline)

(* C15: given that the deadline timer eventually fires, the poll always   *)
(* reaches a terminal state.                                              *)
C15_PollTerminates == <>(pollState \in Terminal)

(* The poll was still waiting after its last round when the deadline      *)
(* ended it.                                                              *)
C15_Witness ==
    /\ pollState = "TimedOut"
    /\ round = MaxRounds
    /\ testGVs # {}
    /\ ~ctxCancelled

(* The GETs issued so far, in order. *)
Gets == SelectSeq(calls, LAMBDA e : e.op = "GET")

(* The paths a complete extraction fetches: v2, then registration order. *)
ExpectedGets == <<V2Path>> \o [i \in 1..Len(services) |-> V3Path(services[i])]

(* C16: one GET for the v2 document, after the poll succeeded; then one   *)
(* GET per registered group-version, in registration order; each GET but  *)
(* the first directly follows the successful write of the document before *)
(* it, and nothing but its own write follows a successful GET.            *)
C16_FetchesInRegistrationOrder ==
    /\ Len(Gets) <= Len(ExpectedGets)
    /\ \A i \in DOMAIN Gets : Gets[i].arg = ExpectedGets[i]
    /\ \A i \in DOMAIN calls : calls[i].op = "GET" =>
          /\ i > 1
          /\ IF calls[i].arg = V2Path
             THEN calls[i - 1] = Call("PollUntilContextTimeout", "", TRUE)
             ELSE calls[i - 1].op = "writeJSONFile" /\ calls[i - 1].ok
          /\ (calls[i].ok /\ i < Len(calls)) => calls[i + 1].op = "writeJSONFile"
    /\ (pc = "exited" /\ exitCode = 0) => Len(Gets) = Len(ExpectedGets)

(* A complete extraction of two registered group-versions. *)
C16_Witness ==
    /\ pc = "exited"
    /\ exitCode = 0
    /\ Len(services) = 2
    /\ Len(Gets) = 3

ExtractionOps == {"GET", "writeJSONFile"}

(* The failed fetches and writes of the extraction. *)
ExtractionFailures == {i \in DOMAIN calls : calls[i].op \in ExtractionOps /\ ~calls[i].ok}

(* C17: once the fetch or the write of a document has failed, no GET and  *)
(* no write follows; the failing step leaves every file written before it *)
(* as it was, and so does every later step; the run exits with code 1.    *)
C17_ExtractionAbortsAtFirstFailure ==
    /\ [](\A i \in ExtractionFailures : i = Len(SelectSeq(calls, LAMBDA e : e.op \notin StopOps)))
    /\ [][(ExtractionFailures = {} /\ ExtractionFailures' # {}) =>
             \A f \in DOMAIN files : f \in DOMAIN files' /\ files'[f] = files[f]]_vars
    /\ [][(ExtractionFailures # {}) => files' = files]_vars
    /\ []((ExtractionFailures # {} /\ pc = "exited") => exitCode = 1)

(* The write of the second v3 document failed after swagger.json and the  *)
(* first v3 document had been written: both are still there.              *)
C17_Witness ==
    /\ pc = "exited"
    /\ Len(services) = 2
    /\ v3idx = 3
    /\ ExtractionFailures # {}
    /\ Cardinality({f \in DOMAIN files : files[f] # ""}) = 2
    /\ Cardinality(DOMAIN files) = 3

(* <output>/swagger.json, as the file system resolves it. *)
SwaggerFile == Clean(outputDir \o "/swagger.json")

(* <output>/v3/apis__<group>__<version>_openapi.json for the              *)
(* group-versions of the model, as the file system resolves it.           *)
ExpectedV3File(gv) ==
    CASE gv = [Group |-> "foo.example.com", Version |-> "v1"] ->
            Clean(outputDir \o "/v3/apis__foo.example.com__v1_openapi.json")
      [] gv = [Group |-> "bar.example.com", Version |-> "v1"] ->
            Clean(outputDir \o "/v3/apis__bar.example.com__v1_openapi.json")

(* C18: every write goes to the file named after the document fetched     *)
(* just before it: swagger.json for v2, apis__<group>__<version>_openapi  *)
(* .json under v3 for a group-version; no other file is ever created.     *)
C18_DeterministicFileNames ==
    /\ \A i \in DOMAIN calls : calls[i].op = "writeJSONFile" =>
          /\ i > 1
          /\ calls[i - 1].op = "GET"
          /\ IF calls[i - 1].arg = V2Path
             THEN calls[i].arg = SwaggerFile
             ELSE \E gv \in GVSet(services) :
                     /\ calls[i - 1].arg = V3Path(gv)
                     /\ calls[i].arg = ExpectedV3File(gv)
    /\ DOMAIN files \subseteq
          {SwaggerFile} \cup {ExpectedV3File(gv) : gv \in GVSet(services)}

(* The document of foo.example.com/v1 was written under the name the      *)
(* specification gives as its example.                                    *)
C18_Witness ==
    /\ "v3/apis__foo.example.com__v1_openapi.json" \in DOMAIN files
    /\ "swagger.json" \in DOMAIN files
    /\ files["v3/apis__foo.example.com__v1_openapi.json"] # ""

(* A run in which every call of phases 1 to 5 succeeded (single probes    *)
(* may have failed on the way) and which has exited.                      *)
FullySuccessfulRun == pc = "exited" /\ \A i \in DOMAIN calls : ~FatalAt(i)

(* The v3 files on disk. *)
V3Files == DOMAIN files \ {SwaggerFile}

(* C19: a fully successful run ends with a non-empty swagger.json, one    *)
(* non-empty v3 file for each registered group-version and no other file, *)
(* and exit code 0.                                                       *)
C19_SuccessfulRunWritesAllFiles ==
    FullySuccessfulRun =>
        /\ SwaggerFile \in DOMAIN files
        /\ V3Files = {ExpectedV3File(gv) : gv \in GVSet(services)}
        /\ Cardinality(V3Files) = Cardinality(GVSet(services))
        /\ \A f \in DOMAIN files : files[f] # ""
        /\ exitCode = 0

(* A successful run over two registered group-versions whose poll needed  *)
(* a second round.                                                        *)
C19_Witness ==
    /\ FullySuccessfulRun
    /\ Len(services) = 2
    /\ round = 2
    /\ Cardinality(DOMAIN files) = 3

(* C20: a GET or a write happens only after the poll ended AllReady; when *)
(* the poll timed out the run returns an error whose cause is the elapsed *)
(* deadline, issues no GET, writes no file and exits with code 1.         *)
C20_ExtractionOnlyWhenAllReady ==
    /\ (\E i \in DOMAIN calls : calls[i].op \in ExtractionOps) => pollState = "AllReady"
    /\ pc \in {"extractOpenAPIv2", "writeV2", "extractOpenAPIv3", "writeV3"}
          => pollState = "AllReady"
    /\ pollState = "TimedOut" =>
          /\ pc \in {"defers", "returned", "exited"}
          /\ err # nil
          /\ err[Len(err)] = "context deadline exceeded"
          /\ files = <<>>
          /\ pc = "exited" => exitCode = 1

(* The poll timed out with a group-version still unavailable and the run  *)
(* has exited.                                                            *)
C20_Witness ==
    /\ pollState = "TimedOut"
    /\ testGVs # {}
    /\ pc = "exited"
    /\ exitCode = 1
    /\ files = <<>>

(* The start of the aggregated server failed. *)
ApiSrvStartFailed == \E i \in DOMAIN calls : calls[i] = Call("apiSrv.Start", "apiSrv", FALSE)

(* C21: after a failed start of the aggregated server its stop is not     *)
(* run (so it terminates nothing and reports nothing), no readiness wait, *)
(* probe, GET or write is made, the error returned is that of the         *)
(* api-server start, the control plane is stopped exactly once before     *)
(* the return, and the exit code is 1.                                    *)
C21_ApiServerStartFailure ==
    ApiSrvStartFailed =>
        /\ \A i \in DOMAIN calls :
              calls[i].op \notin {"apiSrv.Stop", "WaitUntilAPIServicesReadyWithTimeout",
                                  "kubernetes.NewForConfig", "PollUntilContextTimeout",
                                  "HEAD", "GET", "writeJSONFile"}
        /\ \A i \in DOMAIN logged : logged[i].msg # StopLogMsg("apiSrv.Stop")
        /\ err # nil
        /\ Head(err) = "failed to start api server"
        /\ files = <<>>
        /\ StopCount("testEnv") <= 1
        /\ Returned => StopCount("testEnv") = 1
        /\ pc = "exited" => exitCode = 1

(* The start failed, the control plane was stopped and the run exited. *)
C21_Witness ==
    /\ ApiSrvStartFailed
    /\ pc = "exited"
    /\ StopCount("testEnv") = 1
    /\ exitCode = 1

(* The run reports the configuration error. *)
ConfigErrorReported == err # nil /\ err[Len(err)] = ConfigError

(* C22, as stated: when the configuration error (neither command nor     *)
(* package) is reported, no process has been started: the control plane  *)
(* start was not attempted.                                               *)
C22_ConfigErrorBeforeAnyProcess ==
    ConfigErrorReported => ~StartAttempted("testEnv")

(***************************************************************************)
(* writeJSONFile on its own: one payload, a directory that may already     *)
(* hold a file, and up to MaxWrites calls, each for swagger.json or for    *)
(* the document of a group-version.                                        *)
(***************************************************************************)

(* The payloads a GET may have fetched: compact JSON, JSON with space     *)
(* outside and inside strings, and bytes that are not JSON.               *)
FetchedPayloads ==
    { "{\"openapi\":\"3.0.0\"}",
      "{\"a\": 1}",
      "{\"a\":1}\n",
      "{\"a\":\"b c: ,{\"}",
      "[[],{},-1.5e+3,true]",
      "{\n\t\"a\": [\n\t\t1,\n\t\t2\n\t]\n}",
      "<html>",
      "{\"a\":1",
      "" }

(* Names of API groups and versions whose file names come close. *)
NamedGroupVersions ==
    { [Group |-> "foo.example", Version |-> "com"],
      [Group |-> "foo", Version |-> "example.com"],
      [Group |-> "foo.example.com", Version |-> "v1"],
      [Group |-> "foo.example.com", Version |-> "v1beta1"] }

OldContent == "{\n\t\"old\": true\n}"

(* The files the output directory may hold before the first call. *)
ExistingFiles ==
    { <<>>,
      (JoinBase(outputDir, "swagger.json") :> OldContent)
         @@ [f \in {JoinBase(outputDir \o "/" \o "v3", V3FileName(gv)) :
                       gv \in NamedGroupVersions} |-> OldContent] }

WriteInit ==
    /\ pc = "writeJSONFile"
    /\ err = nil
    /\ exitCode = -1
    /\ deferred = <<>>
    /\ ctxCancelled = FALSE
    /\ services = <<>>
    /\ testGVs = {}
    /\ newTestGVs = {}
    /\ pending = {}
    /\ round = 0
    /\ pollCtxErr = nil
    /\ pollState = "Idle"
    /\ preRound = {}
    /\ roundStart = 0
    /\ v3idx = 0
    /\ resp \in FetchedPayloads
    /\ files \in ExistingFiles
    /\ logged = <<>>
    /\ calls = <<>>

(* lines 446 and 453-470: writeJSONFile(outputDir, "swagger.json", resp) *)
writeSwagger ==
    /\ pc = "writeJSONFile"
    /\ Len(calls) < MaxWrites
    /\ \E fs \in FsOutcomes :
         /\ err' = writeJSONFileErr(outputDir, "swagger.json", resp, fs)
         /\ files' = writeJSONFileFiles(outputDir, "swagger.json", resp, fs)
         /\ calls' = Append(calls, Call("writeJSONFile",
                                        JoinBase(outputDir, "swagger.json"), err' = nil))
    /\ logged' = Append(logged, LogRecord("Writing file", nil, {}))
    /\ UNCHANGED <<pc, exitCode, deferred, ctxCancelled, services, pollVars,
                   v3idx, resp>>

(* lines 422, 430 and 453-470: writeJSONFile(outputDir/v3, fileName, resp) *)
(* for one group-version, which services records.                         *)
writeGroupVersion ==
    /\ pc = "writeJSONFile"
    /\ Len(calls) < MaxWrites
    /\ \E gv \in NamedGroupVersions, fs \in FsOutcomes :
         LET dir == outputDir \o "/" \o "v3"
             name == V3FileName(gv) IN
         /\ err' = writeJSONFileErr(dir, name, resp, fs)
         /\ files' = writeJSONFileFiles(dir, name, resp, fs)
         /\ calls' = Append(calls, Call("writeJSONFile", JoinBase(dir, name), err' = nil))
         /\ services' = Append(services, gv)
    /\ logged' = Append(logged, LogRecord("Writing file", nil, {}))
    /\ UNCHANGED <<pc, exitCode, deferred, ctxCancelled, pollVars, v3idx, resp>>

WriteNext ==
    \/ writeSwagger
    \/ writeGroupVersion

WriteSpec == WriteInit /\ [][WriteNext]_vars

(* The last call of writeJSONFile and whether it returned nil. *)
LastWrite == calls[Len(calls)]

Accepted == calls # <<>> /\ LastWrite.ok

(* C23, as stated: compacting the bytes persisted for an accepted payload *)
(* gives the fetched payload back, byte for byte.                         *)
C23_RoundTripByteForByte ==
    Accepted => Compact(files[LastWrite.arg]) = resp

(* C23, amended: compacting the bytes persisted for an accepted payload   *)
(* gives the compact form of the fetched payload: the fetched payload     *)
(* itself exactly when it held no space outside its strings.              *)
C23_RoundTripUpToSpace ==
    Accepted =>
        /\ ValidJSON(resp)
        /\ ValidJSON(files[LastWrite.arg])
        /\ Compact(files[LastWrite.arg]) = Compact(resp)
        /\ Compact(files[LastWrite.arg]) = resp <=> Compact(resp) = resp

(* A payload that was fetched already indented was accepted: the bytes    *)
(* persisted are the payload, and compacting them gives something else.   *)
C23_Witness ==
    /\ Accepted
    /\ resp = "{\n\t\"a\": [\n\t\t1,\n\t\t2\n\t]\n}"
    /\ files[LastWrite.arg] = resp

(* The calls of one operation with one argument. *)
CallsOf(op, arg) == {i \in DOMAIN calls : calls[i].op = op /\ calls[i].arg = arg}

FixedDelayCalls ==
    << "StartWithExtensions", "client.New", "apiserver.New", "apiSrv.Start",
       "WaitUntilAPIServicesReadyWithTimeout", "kubernetes.NewForConfig" >>

(* The statement after call p when p succeeded. *)
AfterCall(p) ==
    LET i == CHOOSE k \in DOMAIN FixedDelayCalls : FixedDelayCalls[k] = p IN
    IF i < Len(FixedDelayCalls) THEN FixedDelayCalls[i + 1] ELSE "time.Sleep"

(* The message main logs when call p failed. *)
FixedDelayMsg(p) ==
    CASE p = "StartWithExtensions" -> "failed to start testenv"
      [] p = "client.New" -> "failed to create Kubernetes client"
      [] p = "apiserver.New" -> "failed to setup api server"
      [] p = "apiSrv.Start" -> "failed to start api server"
      [] p = "WaitUntilAPIServicesReadyWithTimeout" ->
            "failed to wait for api server to become ready"
      [] p = "kubernetes.NewForConfig" -> "failed to create clientset from config"

(* The argument recorded for call p: the handle started, if any. *)
StartedHandle(p) ==
    IF p = "StartWithExtensions" THEN "testEnv"
    ELSE IF p = "apiSrv.Start" THEN "apiSrv"
    ELSE ""

(* defer envtestutils.StopWithExtensions(...) (line 81) and               *)
(* defer apiSrv.Stop() (line 105), after a successful start.              *)
DeferredAfter(p) ==
    IF p = "StartWithExtensions" THEN PushDefer("StopWithExtensions")
    ELSE IF p = "apiSrv.Start" THEN PushDefer("apiSrv.Stop")
    ELSE deferred

(* log.Error(err, msg); os.Exit(1): the process ends at once, the         *)
(* deferred calls of main are not run.                                    *)
osExit(msg, e) ==
    /\ logged' = Append(logged, LogRecord(msg, e, {}))
    /\ err' = e
    /\ exitCode' = 1
    /\ pc' = "exited"

FixedDelayInit ==
    /\ pc = "StartWithExtensions"
    /\ err = nil
    /\ exitCode = -1
    /\ deferred = <<>>
    /\ ctxCancelled = FALSE
    /\ services = <<>>
    /\ testGVs = {}
    /\ newTestGVs = {}
    /\ pending = {}
    /\ round = 0
    /\ pollCtxErr = nil
    /\ pollState = "Idle"
    /\ preRound = {}
    /\ roundStart = 0
    /\ v3idx = 0
    /\ resp = ""
    /\ files = <<>>
    /\ logged = <<>>
    /\ calls = <<>>

(* lines 76-116: one of the calls before the delay. *)
mainCall ==
    /\ \E k \in DOMAIN FixedDelayCalls : pc = FixedDelayCalls[k]
    /\ \E ok \in BOOLEAN :
         /\ calls' = Append(calls, Call(pc, StartedHandle(pc), ok))
         /\ IF ok
            THEN /\ pc' = AfterCall(pc)
                 /\ deferred' = DeferredAfter(pc)
                 /\ IF pc = "StartWithExtensions"
                    THEN \E svcs \in ServiceLists : services' = svcs
                    ELSE UNCHANGED services
                 /\ UNCHANGED <<err, exitCode, logged>>
            ELSE /\ osExit(FixedDelayMsg(pc), <<pc \o " error">>)
                 /\ UNCHANGED <<deferred, services>>
    /\ UNCHANGED <<ctxCancelled, pollVars, v3idx, resp, files>>

(* line 119: time.Sleep(delay) *)
mainSleep ==
    /\ pc = "time.Sleep"
    /\ pc' = "extractOpenAPIv2"
    /\ UNCHANGED <<err, exitCode, deferred, ctxCancelled, services, pollVars,
                   v3idx, resp, files, logged, calls>>

(* lines 121-124 and 153-167: the GET of the v2 document and the write of *)
(* swagger.json; writeFile (169-192) acts on the files as writeJSONFile.  *)
mainExtractOpenAPIv2 ==
    /\ pc = "extractOpenAPIv2"
    /\ \E ok \in BOOLEAN, p \in Payloads, fs \in FsOutcomes :
         LET e == writeJSONFileErr(outputDir, "swagger.json", p, fs) IN
         IF ~ok
         THEN /\ calls' = Append(calls, Call("GET", V2Path, FALSE))
              /\ osExit("failed to extract OpenAPI v2 spec",
                        Errorf("failed to get OpenAPI v2 content", <<"GET error">>))
              /\ UNCHANGED <<resp, files, v3idx>>
         ELSE /\ resp' = p
              /\ files' = writeJSONFileFiles(outputDir, "swagger.json", p, fs)
              /\ calls' = calls \o << Call("GET", V2Path, TRUE),
                                      Call("writeJSONFile",
                                           JoinBase(outputDir, "swagger.json"), e = nil) >>
              /\ IF e = nil
                 THEN /\ pc' = "extractOpenAPIv3"
                      /\ v3idx' = 1
                      /\ UNCHANGED <<err, exitCode, logged>>
                 ELSE /\ osExit("failed to extract OpenAPI v2 spec",
                                Errorf("failed to write OpenAPI v2 file", e))
                      /\ UNCHANGED v3idx
    /\ UNCHANGED <<deferred, ctxCancelled, services, pollVars>>

(* lines 126-129 and 136-149: one iteration of the loop of                *)
(* extractOpenAPIv3.                                                      *)
mainExtractOpenAPIv3 ==
    /\ pc = "extractOpenAPIv3"
    /\ v3idx <= Len(services)
    /\ \E ok \in BOOLEAN, p \in Payloads, fs \in FsOutcomes :
         LET gv == services[v3idx]
             dir == outputDir \o "/" \o "v3"
             e == writeJSONFileErr(dir, V3FileName(gv), p, fs) IN
         IF ~ok
         THEN /\ calls' = Append(calls, Call("GET", V3Path(gv), FALSE))
              /\ osExit("failed to extract OpenAPI v3 spec",
                        Errorf("failed to get OpenAPI v3 path " \o V3Path(gv),
                               getPathErr(V3Path(gv))))
              /\ UNCHANGED <<resp, files, v3idx>>
         ELSE /\ resp' = p
              /\ files' = writeJSONFileFiles(dir, V3FileName(gv), p, fs)
              /\ calls' = calls \o << Call("GET", V3Path(gv), TRUE),
                                      Call("writeJSONFile",
                                           JoinBase(dir, V3FileName(gv)), e = nil) >>
              /\ IF e = nil
                 THEN /\ v3idx' = v3idx + 1
                      /\ UNCHANGED <<pc, err, exitCode, logged>>
                 ELSE /\ osExit("failed to extract OpenAPI v3 spec",
                                Errorf("failed to write OpenAPI v3 file", e))
                      /\ UNCHANGED v3idx
    /\ UNCHANGED <<deferred, ctxCancelled, services, pollVars>>

(* line 130: the loop is over and main returns: its deferred calls run. *)
mainReturn ==
    /\ pc = "extractOpenAPIv3"
    /\ v3idx > Len(services)
    /\ pc' = "defers"
    /\ UNCHANGED <<err, exitCode, deferred, ctxCancelled, services, pollVars,
                   v3idx, resp, files, logged, calls>>

(* lines 81 and 105: a deferred stop runs; its error is dropped. *)
mainDeferred ==
    /\ pc = "defers"
    /\ deferred # <<>>
    /\ \E ok \in BOOLEAN :
         calls' = Append(calls, Call(Head(deferred), HandleOf(Head(deferred)), ok))
    /\ deferred' = Tail(deferred)
    /\ UNCHANGED <<pc, err, exitCode, ctxCancelled, services, pollVars, v3idx,
                   resp, files, logged>>

(* main has returned: the process exits with code 0. *)
mainEnd ==
    /\ pc = "defers"
    /\ deferred = <<>>
    /\ pc' = "exited"
    /\ exitCode' = 0
    /\ UNCHANGED <<err, deferred, ctxCancelled, services, pollVars, v3idx,
                   resp, files, logged, calls>>

FixedDelayNext ==
    \/ mainCall
    \/ mainSleep
    \/ mainExtractOpenAPIv2
    \/ mainExtractOpenAPIv3
    \/ mainReturn
    \/ mainDeferred
    \/ mainEnd

FixedDelaySpec == FixedDelayInit /\ [][FixedDelayNext]_vars

(* C25, as stated: in the fixed-delay variant, when the process has       *)
(* exited after a fatal error that followed a successful control-plane    *)
(* start, the stop of every process started has been executed.            *)
C25_FixedDelayTeardownOnFatalError ==
    (pc = "exited" /\ exitCode = 1 /\ StartedOK("testEnv")) =>
        \A h \in Handles : StartedOK(h) => StopCount(h) = 1

(* The probes of a group-version during the poll, and the successful ones. *)
Heads(gv) == {i \in DOMAIN calls : calls[i].op = "HEAD" /\ calls[i].arg = V3Path(gv)}

OkHeads(gv) == {i \in Heads(gv) : calls[i].ok}

(* C26: the poll ends AllReady only when every registered group-version   *)
(* has answered a probe successfully, in whatever round; a group-version  *)
(* is not probed again after its successful probe; and the poll waits for *)
(* another round only while some group-version has not yet succeeded,     *)
(* the set then being exactly those.                                      *)
C26_EachGroupVersionSucceedsOnce ==
    /\ pollState = "AllReady" => \A gv \in GVSet(services) : OkHeads(gv) # {}
    /\ \A gv \in GroupVersions :
          LET ok == OkHeads(gv) IN
          ok # {} => /\ Cardinality(ok) = 1
                     /\ \A i \in Heads(gv) : \A s \in ok : i <= s
    /\ pc = "pollWait" =>
          /\ testGVs = {gv \in GVSet(services) : OkHeads(gv) = {}}
          /\ testGVs # {}

(* Two registered group-versions: one answered in the first round, the    *)
(* other only in the second, which probed nothing else.                   *)
C26_Witness ==
    /\ pollState = "AllReady"
    /\ Len(services) = 2
    /\ round = 2
    /\ Cardinality(RoundProbes) = 1
    /\ \A gv \in GVSet(services) : Cardinality(OkHeads(gv)) = 1

(* A process is Running from its successful start until its stop has been *)
(* called and has returned.                                               *)
Running(h) == StartedOK(h) /\ StopCount(h) = 0

(* The position of the first stop of the control plane, if any. *)
FirstControlPlaneStop ==
    LET stops == {i \in DOMAIN calls : calls[i].op = "StopWithExtensions"} IN
    IF stops = {} THEN Len(calls) + 1
    ELSE CHOOSE i \in stops : \A j \in stops : i <= j

(* C27: while the aggregated server is Running the control plane is       *)
(* Running; the aggregated server is started only once the control plane  *)
(* start succeeded; the control plane is stopped only after the stop of a *)
(* started aggregated server returned; and every probe, GET and write     *)
(* precedes the stop of the control plane, which was started.             *)
C27_AggregatedServerInsideControlPlane ==
    /\ Running("apiSrv") => Running("testEnv")
    /\ StartAttempted("apiSrv") => StartedOK("testEnv")
    /\ \A i \in DOMAIN calls :
          /\ calls[i].op = "apiSrv.Start" => i < FirstControlPlaneStop
          /\ (calls[i].op = "StopWithExtensions" /\ StartedOK("apiSrv")) =>
                \E j \in 1..(i - 1) : calls[j].op = "apiSrv.Stop"
          /\ calls[i].op \in {"HEAD", "GET", "writeJSONFile"} =>
                /\ StartedOK("testEnv")
                /\ i < FirstControlPlaneStop

(* Both processes were started, probes, GETs and writes were made, and    *)
(* both have been stopped, the control plane last.                        *)
C27_Witness ==
    /\ Returned
    /\ StartedOK("apiSrv")
    /\ StopCount("apiSrv") = 1
    /\ StopCount("testEnv") = 1
    /\ calls[Len(calls)].op = "StopWithExtensions"
    /\ \E i \in DOMAIN calls : calls[i].op = "writeJSONFile"

(* C28: a call of writeJSONFile with a payload that is not valid JSON     *)
(* returns an error and leaves every file as it was: no file is created,  *)
(* truncated or modified.                                                 *)
C28_InvalidPayloadLeavesFilesUntouched ==
    [][(~ValidJSON(resp) /\ calls' # calls) =>
          /\ files' = files
          /\ err' # nil
          /\ ~calls'[Len(calls')].ok]_vars

(* A payload that is not JSON was refused, for pretty printing, while the *)
(* destination held a file: the file still has its old content.           *)
C28_Witness ==
    /\ calls # <<>>
    /\ ~ValidJSON(resp)
    /\ err # nil
    /\ Head(err) = "failed to pretty print JSON"
    /\ LastWrite.arg \in DOMAIN files
    /\ files[LastWrite.arg] = OldContent

(* The writes of the documents of group-versions, in order: the i-th is  *)
(* that of services[i].                                                  *)
V3Writes == SelectSeq(calls, LAMBDA e : e.arg # JoinBase(outputDir, "swagger.json"))

(* C29: two different group-versions are never written to the same file,  *)
(* so the v3 files written are as many as the group-versions written.     *)
C29_DestinationInjective ==
    /\ Len(V3Writes) = Len(services)
    /\ \A i, j \in DOMAIN services :
          V3Writes[i].arg = V3Writes[j].arg => services[i] = services[j]
    /\ (\A i \in DOMAIN V3Writes : V3Writes[i].ok) =>
          Cardinality({V3Writes[i].arg : i \in DOMAIN V3Writes})
             = Cardinality(GVSet(services))

(* The documents of foo.example/com and of foo/example.com were both      *)
(* written: two files.                                                    *)
C29_Witness ==
    /\ Len(services) = 2
    /\ services[1] = [Group |-> "foo.example", Version |-> "com"]
    /\ services[2] = [Group |-> "foo", Version |-> "example.com"]
    /\ \A i \in DOMAIN V3Writes : V3Writes[i].ok
    /\ Cardinality({V3Writes[i].arg : i \in DOMAIN V3Writes}) = 2

====
